---------------------------- MODULE Spec2Model ----------------------------
(***************************************************************************)
(* colorsquash: palette selection (greedy sort/select, adaptive tolerance  *)
(* search, k-means), the colour difference metrics, and the Squasher with  *)
(* its direct-indexed colour lookup table.                                 *)
(*                                                                         *)
(* Colours are triples <<r, g, b>> of 8-bit channels.  Palette indices are *)
(* 0-based as in the code; TLA+ sequences are 1-based, so the palette      *)
(* entry with index i is palette[i + 1].                                   *)
(*                                                                         *)
(* f32 values are modelled exactly on integer grids:                       *)
(*   - a tolerance percentage is an integer number of 1/128 percent        *)
(*     (3.0 is 384, 0.25 is 32, 37.5 is 4800); every value used is exactly *)
(*     representable in f32, and so is every halving of a variance;        *)
(*   - the rgb difference is integer valued;                               *)
(*   - the redmean difference is the square root of a rational; it is      *)
(*     modelled by 512 times its radicand, an integer that orders colours  *)
(*     exactly as the square root does.                                    *)
(***************************************************************************)
EXTENDS Integers, Sequences, FiniteSets, TLC

VARIABLES
    max_colours_min1,   \* Squasher.max_colours_min1
    palette,            \* Squasher.palette
    map,                \* Squasher.map, the lookup table (address -> index)
    difference_fn,      \* Squasher.difference_fn: "rgb" or "redmean"
    tolerance_percent,  \* Squasher.tolerance_percent, in 1/128 percent
    op,                 \* the last call made
    image,              \* the pixels handed to the last call
    buffer,             \* the caller's buffer after the last call
    written,            \* number of buffer elements the last call wrote
    touched,            \* table addresses the last call wrote
    panic,              \* how the last call ended
    ret,                \* value returned by the last call (map_over)
    pixels,             \* the remap loop in flight: one entry per pixel
    selector,           \* the Selector that runs, with its fields
    centroids,          \* KMeans::get_k_colors: the centroids so far
    rounds              \* KMeans::get_k_colors: refinement rounds done

vars == <<max_colours_min1, palette, map, difference_fn, tolerance_percent,
          op, image, buffer, written, touched, panic, ret, pixels,
          selector, centroids, rounds>>

\* the Squasher's fields
squasher == <<max_colours_min1, palette, map, difference_fn, tolerance_percent>>

\* what a call leaves with its caller
call == <<op, image, buffer, written, touched, panic, ret, pixels>>

\* the state of a Selector run
selection == <<selector, centroids, rounds>>

---------------------------------------------------------------------------
(* Bounds of the model *)

\* longest image, in pixels, handed to a Squasher call
MaxPixels == 3


---------------------------------------------------------------------------
(* Colours *)

\* the colours images are drawn from
Colors == { <<10, 10, 10>>, <<200, 200, 200>>, <<10, 105, 200>> }

\* non-empty images of at most n pixels
Images(n) == UNION { [1..k -> Colors] : k \in 1..n }

\* the metrics shipped with the crate
DiffFns == { "rgb", "redmean" }

\* tolerance percentages drawn, in 1/128 percent: 0.0 and 37.5
Tolerances == { 0, 4800 }

\* max_colours_min1 values drawn for a Squasher: palettes of at most 1, 2 or
\* 3 colours, the last one as many as there are colours
MaxColoursMin1s == { 0, 1, 2 }

Abs(x) == IF x < 0 THEN -x ELSE x

Max(x, y) == IF x < y THEN y ELSE x

Min(x, y) == IF x < y THEN x ELSE y

\* f32::MAX: above every difference and every score the model can produce
F32_MAX == 2147483647

\* usize::MAX, kept to the width of the model's integers (all ones)
USIZE_MAX == 2147483647

\* rgb without the absolute values
rgb_signed(a, b) == (a[1] - b[1]) + (a[2] - b[2]) + (a[3] - b[3])

\* difference::rgb
rgb(a, b) == Abs(a[1] - b[1]) + Abs(a[2] - b[2]) + Abs(a[3] - b[3])

\* difference::redmean, as 512 * (red_part + green_part + blue_part)
redmean(a, b) ==
    LET delta_r == a[1] - b[1]
        delta_g == a[2] - b[2]
        delta_b == a[3] - b[3]
        r_sum   == a[1] + b[1]      \* 2 * r_prime
    IN  (1024 + r_sum) * (delta_r * delta_r)
        + 2048 * (delta_g * delta_g)
        + (1024 + 510 - r_sum) * (delta_b * delta_b)

\* a difference function of the user's own, written to the module docs of
\* difference.rs (first the colour in the palette, then the colour checked):
\* by how much the checked colour b is lighter than the palette colour a
lighter(a, b) == Max(0, (b[1] + b[2] + b[3]) - (a[1] + a[2] + a[3]))

\* (self.difference_fn)(a, b)
Difference(fn, a, b) ==
    IF fn = "rgb" THEN rgb(a, b)
    ELSE IF fn = "redmean" THEN redmean(a, b)
    ELSE lighter(a, b)

\* diff > (percent / 100.0) * 765.0, for a difference computed by fn and a
\* tolerance t in 1/128 percent
ExceedsTolerance(fn, diff, t) ==
    IF t < 0 THEN TRUE
    ELSE IF fn # "redmean" THEN diff * 12800 > t * 765
    ELSE LET sq == t * t
             q  == sq \div 12800
             r  == sq % 12800
         IN  diff > q * 23409 + (r * 23409) \div 12800

\* color_index
color_index(c) == c[1] * (256 * 256) + c[2] * 256 + c[3]

\* the table addresses the colours of the model reach
Addrs == { color_index(c) : c \in Colors }

\* Count::from_usize for u8
from_usize(n) == n % 256

\* self.map[address]; every slot outside Addrs keeps its initial zero
TableGet(table, addr) == IF addr \in DOMAIN table THEN table[addr] ELSE 0

---------------------------------------------------------------------------
(* Histogram: unique_and_sort / sort *)

\* the colours of an image
Distinct(img) == { img[i] : i \in DOMAIN img }

\* occurrences of c in img
Count(img, c) == Cardinality({ i \in DOMAIN img : img[i] = c })

\* the orders in which HashMap::into_iter may yield the entries of the
\* colour -> count map of img
IterationOrders(img) ==
    LET S == Distinct(img)
        n == Cardinality(S)
    IN  { s \in [1..n -> S] : \A i, j \in 1..n : i # j => s[i] # s[j] }

\* SortGreater without the tie-breaks on the channels: the frequency alone
SortGreaterByFrequency(e1, e2) == e2[2] > e1[2]

\* SortGreater with the frequencies compared the other way round: the rarest
\* colour first
SortGreaterAscending(e1, e2) ==
    LET c1 == e1[1]
        c2 == e2[1]
    IN  IF e2[2] # e1[2] THEN e1[2] > e2[2]
        ELSE IF c2[1] # c1[1] THEN c2[1] > c1[1]
        ELSE IF c2[2] # c1[2] THEN c2[2] > c1[2]
        ELSE c2[3] > c1[3]

\* the comparator of sort_by: TRUE iff it orders entry e1 = <<colour, freq>>
\* strictly after e2 (Ordering::Greater)
SortGreater(e1, e2) ==
    LET c1 == e1[1]
        c2 == e2[1]
    IN  IF e2[2] # e1[2] THEN e2[2] > e1[2]
        ELSE IF c2[1] # c1[1] THEN c2[1] > c1[1]
        ELSE IF c2[2] # c1[2] THEN c2[2] > c1[2]
        ELSE c2[3] > c1[3]

\* insert e into the sorted sequence s behind every entry that is not
\* greater than it (a stable insertion)
SortInsert(s, e) ==
    LET before == { i \in 1..Len(s) : SortGreater(s[i], e) }
        k == IF before = {} THEN Len(s) + 1
             ELSE CHOOSE i \in before : \A j \in before : i <= j
    IN  SubSeq(s, 1, k - 1) \o <<e>> \o SubSeq(s, k, Len(s))

RECURSIVE SortBy(_, _)
\* sorted.sort_by(...) on the entries from position i on, merged into acc
SortBy(entries, acc) ==
    IF entries = <<>> THEN acc
    ELSE SortBy(Tail(entries), SortInsert(acc, Head(entries)))

\* HeuristicSorsel::unique_and_sort: the <<colour, count>> entries of img,
\* collected in iteration order `order` and sorted
SortedEntries(img, order) ==
    SortBy([i \in 1..Len(order) |-> <<order[i], Count(img, order[i])>>], <<>>)

\* Squasher::unique_and_sort / SortSelect::unique_and_sort: the colours only
unique_and_sort(img, order) ==
    LET s == SortedEntries(img, order)
    IN  [i \in 1..Len(s) |-> s[i][1]]

\* every result unique_and_sort(img) can return, over the iteration orders
\* of its HashMap
UniqueAndSorted(img) ==
    { unique_and_sort(img, order) : order \in IterationOrders(img) }

---------------------------------------------------------------------------
(* Squasher::select_colors *)

\* AllExceed with any for all: sorted_color differs from some selected colour
\* by more than the tolerance
AnyExceeds(fn, t, selected, sorted_color) ==
    \E i \in 1..Len(selected) :
        ExceedsTolerance(fn, Difference(fn, sorted_color, selected[i]), t)

\* the test of line 225-227: sorted_color differs from every selected colour
\* by more than the tolerance
AllExceed(fn, t, selected, sorted_color) ==
    \A i \in 1..Len(selected) :
        ExceedsTolerance(fn, Difference(fn, sorted_color, selected[i]), t)

RECURSIVE SelectLoop(_, _, _, _, _)
SelectLoop(fn, t, max_colours, sorted, selected) ==
    IF sorted = <<>> THEN selected
    ELSE IF max_colours <= Len(selected) THEN selected
    ELSE IF AllExceed(fn, t, selected, Head(sorted))
         THEN SelectLoop(fn, t, max_colours, Tail(sorted),
                         Append(selected, Head(sorted)))
         ELSE SelectLoop(fn, t, max_colours, Tail(sorted), selected)

\* select_colors taking max_colours_min1 for the number of colours
select_colors_min1(fn, t, min1, sorted) == SelectLoop(fn, t, min1, sorted, <<>>)

select_colors(fn, t, min1, sorted) == SelectLoop(fn, t, min1 + 1, sorted, <<>>)

---------------------------------------------------------------------------
(* selection.rs: SortSelect *)

\* the test of SortSelect::select, lines 36-38 (also compute_once, 235-237):
\* every selected colour differs from sorted_color by more than the tolerance
AllExceedSelected(fn, t, selected, sorted_color) ==
    \A i \in 1..Len(selected) :
        ExceedsTolerance(fn, Difference(fn, selected[i], sorted_color), t)

RECURSIVE SortSelectLoop(_, _, _, _, _)
SortSelectLoop(fn, t, max_colours, sorted, selected) ==
    IF sorted = <<>> THEN selected
    ELSE IF max_colours <= Len(selected) THEN selected
    ELSE IF AllExceedSelected(fn, t, selected, Head(sorted))
         THEN SortSelectLoop(fn, t, max_colours, Tail(sorted),
                             Append(selected, Head(sorted)))
         ELSE SortSelectLoop(fn, t, max_colours, Tail(sorted), selected)

\* SortSelect::select on an already sorted histogram
SortSelect_select(fn, t, max_colours, sorted) ==
    SortSelectLoop(fn, t, max_colours, sorted, <<>>)

---------------------------------------------------------------------------
(* selection.rs: HeuristicSorsel *)

\* every result HeuristicSorsel::unique_and_sort(img) can return
SortedEntriesOf(img) ==
    { SortedEntries(img, order) : order \in IterationOrders(img) }

\* the colours of a sequence of <<colour, count>> entries
ColoursOf(colors) == [i \in 1..Len(colors) |-> colors[i][1]]

RECURSIVE MinDiffLoop(_, _, _, _, _)
\* the inner loop of the scoring, lines 248-255
MinDiffLoop(fn, selected_colors, color, i, min_diff) ==
    IF i > Len(selected_colors) THEN min_diff
    ELSE LET diff == Difference(fn, selected_colors[i], color)
         IN  IF Max(diff, 0) < min_diff
             THEN MinDiffLoop(fn, selected_colors, color, i + 1, diff)
             ELSE MinDiffLoop(fn, selected_colors, color, i + 1, min_diff)

\* score += min_diff * count in f32; at and beyond f32::MAX the sum stays
\* there (it is f32::MAX or infinite, and compares alike)
ScoreAdd(score, min_diff, count) ==
    IF min_diff >= F32_MAX \/ score >= F32_MAX THEN F32_MAX
    ELSE Min(F32_MAX, score + min_diff * count)

RECURSIVE ScoreLoop(_, _, _, _, _)
\* the scoring loop, lines 246-258
ScoreLoop(fn, selected_colors, colors, i, score) ==
    IF i > Len(colors) THEN score
    ELSE ScoreLoop(fn, selected_colors, colors, i + 1,
             ScoreAdd(score,
                      MinDiffLoop(fn, selected_colors, colors[i][1], 1, F32_MAX),
                      colors[i][2]))

\* HeuristicSorsel::compute_once: a RunData
compute_once(colors, max_colours, tolerance, fn) ==
    LET selected_colors ==
            SortSelectLoop(fn, tolerance, max_colours, ColoursOf(colors), <<>>)
    IN  [palette |-> selected_colors,
         score   |-> ScoreLoop(fn, selected_colors, colors, 1, 0)]

\* current_variance > 0.0
VarianceAboveZero(current_variance) == current_variance > 0

\* current_variance > 0.01, the variance in 1/128 percent (0.01 is 1.28)
VarianceAboveEpsilon(current_variance) == current_variance * 100 > 128

\* what one pass of the while loop evaluated: the tolerance and the variance
\* it started with and its two RunData
Attempt(current_tolerance, current_variance, run_up, run_down) ==
    [tolerance |-> current_tolerance, variance |-> current_variance,
     up |-> run_up, down |-> run_down]

\* the loop has ended: best, and the passes made since `evaluated` began
Ended(best) == [best |-> best, evaluated |-> <<>>]

\* a pass followed by the rest of the loop
After(attempt, rest) ==
    [best |-> rest.best, evaluated |-> <<attempt>> \o rest.evaluated]

RECURSIVE HeuristicLoop(_, _, _, _, _, _, _, _)
\* the while loop of HeuristicSorsel::select, lines 183-209: the final best
\* and the passes it made
HeuristicLoop(colors, max_colours, fn, max_attempts, attempts, current_tolerance, current_variance, best) ==
    IF ~(attempts < max_attempts) THEN Ended(best)
    ELSE LET higher   == current_tolerance + current_variance
             lower    == current_tolerance - current_variance
             run_up   == compute_once(colors, max_colours, higher, fn)
             run_down == compute_once(colors, max_colours, lower, fn)
             attempt  == Attempt(current_tolerance, current_variance,
                                 run_up, run_down)
         IN  IF run_up.score >= best.score /\ run_down.score >= best.score
             THEN IF VarianceAboveEpsilon(current_variance)
                  THEN After(attempt,
                           HeuristicLoop(colors, max_colours, fn, max_attempts,
                               attempts + 1, current_tolerance,
                               current_variance \div 2, best))
                  ELSE After(attempt, Ended(best))
             ELSE IF run_up.score < run_down.score
                  THEN After(attempt,
                           HeuristicLoop(colors, max_colours, fn, max_attempts,
                               attempts + 1, higher, current_variance, run_up))
                  ELSE After(attempt,
                           HeuristicLoop(colors, max_colours, fn, max_attempts,
                               attempts + 1, lower, current_variance, run_down))

\* HeuristicSorsel::select up to its last line: the loop run from the
\* initial best, attempts and current values, lines 173-209
HeuristicSorsel_run(sel, fn, max_colours, colors) ==
    HeuristicLoop(colors, max_colours, fn, sel.max_attempts,
                  0, sel.tolerance, sel.variance,
                  [palette |-> <<>>, score |-> F32_MAX])

\* HeuristicSorsel::select on an already sorted histogram: best.palette
HeuristicSorsel_select(sel, fn, max_colours, colors) ==
    HeuristicSorsel_run(sel, fn, max_colours, colors).best.palette

---------------------------------------------------------------------------
(* nih_kmeans.rs: KMeans *)

\* longest sample buffer, in pixels, handed to a Selector
MaxSamples == 4

RECURSIVE Gcd(_, _)
Gcd(a, b) == IF b = 0 THEN a ELSE Gcd(b, a % b)

RECURSIVE LcmUpTo(_)
LcmUpTo(n) ==
    IF n <= 1 THEN 1
    ELSE LET l == LcmUpTo(n - 1) IN (l * n) \div Gcd(l, n)

\* an RGB<f32> centroid is a triple of integers, CentroidScale times its
\* channels: every mean of at most MaxSamples samples is on that grid
CentroidScale == LcmUpTo(MaxSamples)

\* RGB8 -> RGB<f32> (.into())
ToRGBF(v) == <<v[1] * CentroidScale, v[2] * CentroidScale, v[3] * CentroidScale>>

\* vector_diff
vector_diff(v1, v2) == <<v1[1] - v2[1], v1[2] - v2[2], v1[3] - v2[3]>>

\* vector_diff_2_norm, squared: the square root keeps the order
vector_diff_2_norm(v1, v2) ==
    LET diff == vector_diff(v1, v2)
    IN  diff[1] * diff[1] + diff[2] * diff[2] + diff[3] * diff[3]

\* KMeans::closest_centroid: Iterator::min_by returns the first minimum
closest_centroid(cs, v) ==
    LET i == CHOOSE i \in 1..Len(cs) :
                 \A j \in 1..Len(cs) :
                     /\ vector_diff_2_norm(cs[i], v) <= vector_diff_2_norm(cs[j], v)
                     /\ j < i => vector_diff_2_norm(cs[j], v) > vector_diff_2_norm(cs[i], v)
    IN  cs[i]

\* the distance of sample v to its closest centroid, lines 70-74
SeedDistance(cs, v) ==
    vector_diff_2_norm(ToRGBF(v), closest_centroid(cs, ToRGBF(v)))

\* the sample lines 66-77 pick: Iterator::max_by returns the last maximum
FarthestSample(samples, cs) ==
    LET i == CHOOSE i \in 1..Len(samples) :
                 \A j \in 1..Len(samples) :
                     /\ SeedDistance(cs, samples[j]) <= SeedDistance(cs, samples[i])
                     /\ j > i => SeedDistance(cs, samples[j]) < SeedDistance(cs, samples[i])
    IN  samples[i]

RECURSIVE SeedLoop(_, _, _)
\* the while loop of get_centroid_seeds_simple, lines 65-79
SeedLoop(samples, k, cs) ==
    IF ~(Len(cs) < k) THEN cs
    ELSE SeedLoop(samples, k, Append(cs, ToRGBF(FarthestSample(samples, cs))))

\* KMeans::get_centroid_seeds_simple (built without the rand feature)
get_centroid_seeds_simple(samples, k) ==
    IF k >= Len(samples) THEN [i \in 1..Len(samples) |-> ToRGBF(samples[i])]
    ELSE SeedLoop(samples, k, <<ToRGBF(samples[1])>>)

RECURSIVE SumChannel(_, _)
SumChannel(vs, ch) ==
    IF vs = <<>> THEN 0 ELSE Head(vs)[ch] + SumChannel(Tail(vs), ch)

\* vector_avg: the mean of the members of a cluster
vector_avg(vs) ==
    LET w == CentroidScale \div Len(vs)
    IN  <<SumChannel(vs, 1) * w, SumChannel(vs, 2) * w, SumChannel(vs, 3) * w>>

\* the keys of the clusters map of one round, lines 32-40
ClusterKeys(samples, cs) ==
    { closest_centroid(cs, ToRGBF(samples[i])) : i \in 1..Len(samples) }

\* the members of the cluster of `key`, in sample order
ClusterMembers(samples, cs, key) ==
    SelectSeq(samples, LAMBDA v : closest_centroid(cs, ToRGBF(v)) = key)

\* the centroids one round can leave, lines 41-44: the mean of every cluster,
\* in any order HashMap::into_values may yield them
RoundResults(samples, cs) ==
    LET keys == ClusterKeys(samples, cs)
        n == Cardinality(keys)
        orders == { s \in [1..n -> keys] :
                        \A i, j \in 1..n : i # j => s[i] # s[j] }
    IN  { [i \in 1..n |-> vector_avg(ClusterMembers(samples, cs, o[i]))] :
              o \in orders }

\* c.round() as u8 for a channel x / CentroidScale >= 0 (half away from zero)
RoundU8(x) == Min(255, (2 * x + CentroidScale) \div (2 * CentroidScale))

\* lines 46-49: the centroids as RGB8
RoundCentroids(cs) ==
    [i \in 1..Len(cs) |-> <<RoundU8(cs[i][1]), RoundU8(cs[i][2]), RoundU8(cs[i][3])>>]

---------------------------------------------------------------------------
(* Squasher::map_selected *)

RECURSIVE MinIndexLoopLast(_, _, _, _, _, _)
\* MinIndexLoop with <= for <: among equally near entries the last one wins
MinIndexLoopLast(fn, pal, colour, index, min_diff, min_index) ==
    IF index >= Len(pal) THEN min_index
    ELSE LET diff == Difference(fn, colour, pal[index + 1])
         IN  IF Max(diff, 0) <= min_diff
             THEN MinIndexLoopLast(fn, pal, colour, index + 1, diff, index)
             ELSE MinIndexLoopLast(fn, pal, colour, index + 1, min_diff, min_index)

RECURSIVE MinIndexLoop(_, _, _, _, _, _)
\* the inner loop of map_selected from palette index `index` on
MinIndexLoop(fn, pal, colour, index, min_diff, min_index) ==
    IF index >= Len(pal) THEN min_index
    ELSE LET diff == Difference(fn, colour, pal[index + 1])
         IN  IF Max(diff, 0) < min_diff
             THEN MinIndexLoop(fn, pal, colour, index + 1, diff, index)
             ELSE MinIndexLoop(fn, pal, colour, index + 1, min_diff, min_index)

\* the index map_selected stores for `colour`
MinIndex(fn, pal, colour) ==
    from_usize(MinIndexLoop(fn, pal, colour, 0, F32_MAX, USIZE_MAX))

RECURSIVE map_selected(_, _, _, _)
map_selected(fn, pal, table, sorted) ==
    IF sorted = <<>> THEN table
    ELSE map_selected(fn, pal,
             [table EXCEPT ![color_index(Head(sorted))] =
                 MinIndex(fn, pal, Head(sorted))],
             Tail(sorted))

---------------------------------------------------------------------------
(* The mapping loops *)

\* a caller's output buffer of n elements, before the call
FreshBuffer(n) == [i \in 1..n |-> 0]

\* the loop of map / map_no_recolor: buffer[idx] = self.map[color_index(..)]
\* for idx = 0, 1, ... until the image ends or buffer[idx] is out of bounds
MapLoop(table, img, buf) ==
    [i \in 1..Len(buf) |->
        IF i <= Len(img) THEN TableGet(table, color_index(img[i])) ELSE buf[i]]

\* the bytes of an image (ComponentBytes)
RECURSIVE AsBytes(_)
AsBytes(img) ==
    IF img = <<>> THEN <<>> ELSE Head(img) \o AsBytes(Tail(img))

\* the pixels of a byte buffer (FromSlice::as_rgb): whole triplets only
AsRgb(bytes) ==
    [i \in 1..(Len(bytes) \div 3) |->
        <<bytes[3 * i - 2], bytes[3 * i - 1], bytes[3 * i]>>]

RECURSIVE MapOverLoopDown(_, _, _)
\* MapOverLoop walking the pixels from the last one down to the first
MapOverLoopDown(table, bytes, idx) ==
    IF idx >= Len(bytes) \div 3 THEN bytes
    ELSE LET pixel == (Len(bytes) \div 3) - 1 - idx
             rgb_idx == pixel * 3
             color == <<bytes[rgb_idx + 1], bytes[rgb_idx + 2], bytes[rgb_idx + 3]>>
             ci == TableGet(table, color_index(color))
         IN  MapOverLoopDown(table, [bytes EXCEPT ![pixel + 1] = ci], idx + 1)

RECURSIVE MapOverLoop(_, _, _)
\* the loop of map_over from pixel idx on, reading and writing `bytes`
MapOverLoop(table, bytes, idx) ==
    IF idx >= Len(bytes) \div 3 THEN bytes
    ELSE LET rgb_idx == idx * 3
             color == <<bytes[rgb_idx + 1], bytes[rgb_idx + 2], bytes[rgb_idx + 3]>>
             ci == TableGet(table, color_index(color))
         IN  MapOverLoop(table, [bytes EXCEPT ![idx + 1] = ci], idx + 1)

---------------------------------------------------------------------------
(* The Squasher *)

\* Squasher::from_parts: the length of the lookup table, 256 * 256 * 256
MAP_LEN == 16777216

\* Squasher::from_parts: the lookup table, zeroed; of its MAP_LEN slots the
\* model keeps those the colours of the model address
ZeroMap == [a \in Addrs |-> 0]

\* the selector of src/lib.rs: Squasher::select_colors, no separate object
BuiltIn ==
    [kind |-> "select_colors", tolerance |-> 0, variance |-> 0,
     max_attempts |-> 0, max_iter |-> 0,
     max_colors |-> max_colours_min1 + 1, evaluated |-> <<>>]

\* Squasher::new / SquasherBuilder::build: from_parts, then recolor(img)
Init ==
    \E img \in Images(MaxPixels) : \E sorted \in UniqueAndSorted(img) :
        /\ max_colours_min1 \in MaxColoursMin1s
        /\ difference_fn \in DiffFns
        /\ tolerance_percent \in Tolerances
        /\ palette = select_colors(difference_fn, tolerance_percent,
                                   max_colours_min1, sorted)
        /\ map = ZeroMap
        /\ op = "new"
        /\ image = img
        /\ buffer = <<>>
        /\ written = 0
        /\ touched = {}
        /\ panic = "none"
        /\ ret = 0
        /\ pixels = <<>>
        /\ selector = BuiltIn
        /\ centroids = <<>>
        /\ rounds = 0

\* recolor that selects on top of the previous palette instead of a fresh,
\* empty one
RecolorMerged(img) ==
    \E sorted \in UniqueAndSorted(img) :
        /\ palette' = SelectLoop(difference_fn, tolerance_percent,
                                 max_colours_min1 + 1, sorted, palette)
        /\ op' = "recolor"
        /\ image' = img
        /\ buffer' = <<>>
        /\ written' = 0
        /\ touched' = {}
        /\ panic' = "none"
        /\ ret' = 0
        /\ pixels' = <<>>
        /\ UNCHANGED <<max_colours_min1, map, difference_fn, tolerance_percent>>

\* Squasher::recolor
Recolor(img) ==
    \E sorted \in UniqueAndSorted(img) :
        /\ palette' = select_colors(difference_fn, tolerance_percent,
                                    max_colours_min1, sorted)
        /\ op' = "recolor"
        /\ image' = img
        /\ buffer' = <<>>
        /\ written' = 0
        /\ touched' = {}
        /\ panic' = "none"
        /\ ret' = 0
        /\ pixels' = <<>>
        /\ UNCHANGED <<max_colours_min1, map, difference_fn, tolerance_percent>>

\* Squasher::map with an output buffer of n elements
Map(img, n) ==
    /\ op' = "map"
    /\ image' = img
    /\ ret' = 0
    /\ pixels' = <<>>
    /\ UNCHANGED <<max_colours_min1, palette, difference_fn, tolerance_percent>>
    /\ IF n * 3 < Len(img)
       THEN /\ panic' = "output buffer too small"
            /\ buffer' = FreshBuffer(n)
            /\ written' = 0
            /\ touched' = {}
            /\ map' = map
       ELSE \E sorted \in UniqueAndSorted(img) :
            /\ map' = map_selected(difference_fn, palette, map, sorted)
            /\ touched' = { color_index(c) : c \in Distinct(img) }
            /\ buffer' = MapLoop(map', img, FreshBuffer(n))
            /\ written' = Min(n, Len(img))
            /\ panic' = IF n < Len(img) THEN "index out of bounds" ELSE "none"

\* map_no_recolor that recounts the image and fills the table as map does
MapNoRecolorRecount(img, n) ==
    /\ op' = "map_no_recolor"
    /\ image' = img
    /\ ret' = 0
    /\ pixels' = <<>>
    /\ touched' = {}
    /\ UNCHANGED <<max_colours_min1, palette, difference_fn,
                   tolerance_percent>>
    /\ \E sorted \in UniqueAndSorted(img) :
           map' = map_selected(difference_fn, palette, map, sorted)
    /\ IF n * 3 < Len(img)
       THEN /\ panic' = "output buffer too small"
            /\ buffer' = FreshBuffer(n)
            /\ written' = 0
       ELSE /\ buffer' = MapLoop(map', img, FreshBuffer(n))
            /\ written' = Min(n, Len(img))
            /\ panic' = IF n < Len(img) THEN "index out of bounds" ELSE "none"

\* Squasher::map_no_recolor with an output buffer of n elements
MapNoRecolor(img, n) ==
    /\ op' = "map_no_recolor"
    /\ image' = img
    /\ ret' = 0
    /\ pixels' = <<>>
    /\ touched' = {}
    /\ UNCHANGED <<max_colours_min1, palette, map, difference_fn,
                   tolerance_percent>>
    /\ IF n * 3 < Len(img)
       THEN /\ panic' = "output buffer too small"
            /\ buffer' = FreshBuffer(n)
            /\ written' = 0
       ELSE /\ buffer' = MapLoop(map, img, FreshBuffer(n))
            /\ written' = Min(n, Len(img))
            /\ panic' = IF n < Len(img) THEN "index out of bounds" ELSE "none"

\* Squasher::<u8>::map_over on the bytes of img
MapOver(img) ==
    \E sorted \in UniqueAndSorted(AsRgb(AsBytes(img))) :
        /\ map' = map_selected(difference_fn, palette, map, sorted)
        /\ touched' = { color_index(c) : c \in Distinct(img) }
        /\ buffer' = MapOverLoop(map', AsBytes(img), 0)
        /\ written' = Len(AsBytes(img)) \div 3
        /\ ret' = Len(AsBytes(img)) \div 3
        /\ pixels' = <<>>
        /\ op' = "map_over"
        /\ image' = img
        /\ panic' = "none"
        /\ UNCHANGED <<max_colours_min1, palette, difference_fn,
                       tolerance_percent>>

\* the call has returned: the caller's borrows of the image and of the output
\* buffer end, and the Squasher is ready for its next call.  A call that
\* panicked does not return.
Return ==
    /\ op # "idle"
    /\ panic = "none"
    /\ op' = "idle"
    /\ image' = <<>>
    /\ buffer' = <<>>
    /\ written' = 0
    /\ touched' = {}
    /\ ret' = 0
    /\ pixels' = <<>>
    /\ UNCHANGED <<panic, squasher>>

\* the calls a program makes on its Squasher, one after the other
Next ==
    \/ Return /\ UNCHANGED selection
    \/ /\ op = "idle"
       /\ \E img \in Images(MaxPixels) : Recolor(img)
       /\ UNCHANGED selection
    \/ /\ op = "idle"
       /\ \E img \in Images(MaxPixels), n \in 0..MaxPixels : Map(img, n)
       /\ UNCHANGED selection
    \/ /\ op = "idle"
       /\ \E img \in Images(MaxPixels), n \in 0..MaxPixels : MapNoRecolor(img, n)
       /\ UNCHANGED selection
    \/ /\ op = "idle"
       /\ \E img \in Images(MaxPixels) : MapOver(img)
       /\ UNCHANGED selection

Spec == Init /\ [][Next]_vars

---------------------------------------------------------------------------
(* map_over on byte buffers of any length *)

\* the bytes that follow the last whole RGB triplet of a buffer
TrailingBytes == { <<>>, <<10>>, <<10, 200>> }

\* Squasher::<u8>::map_over on a byte buffer
MapOverBytes(bytes) ==
    \E sorted \in UniqueAndSorted(AsRgb(bytes)) :
        /\ map' = map_selected(difference_fn, palette, map, sorted)
        /\ touched' = { color_index(c) : c \in Distinct(AsRgb(bytes)) }
        /\ buffer' = MapOverLoop(map', bytes, 0)
        /\ written' = Len(bytes) \div 3
        /\ ret' = Len(bytes) \div 3
        /\ pixels' = <<>>
        /\ op' = "map_over"
        /\ image' = AsRgb(bytes)
        /\ panic' = "none"
        /\ UNCHANGED <<max_colours_min1, palette, difference_fn,
                       tolerance_percent>>

NextBytes ==
    \/ Return /\ UNCHANGED selection
    \/ /\ op = "idle"
       /\ \E img \in Images(MaxPixels), rest \in TrailingBytes :
              MapOverBytes(AsBytes(img) \o rest)
       /\ UNCHANGED selection

SpecBytes == Init /\ [][NextBytes]_vars

---------------------------------------------------------------------------
(* The remap loop of map and map_over, one pixel at a time *)

\* a pixel the loop has not reached.  `at` is the pixel's place in the loop
\* body: "todo", then "read" (colour read, index looked up), then "done"
\* (index stored).  `late` and `turn` record the schedule: whether the pixel
\* was read after an index had been stored into one of its three bytes, and
\* how many indices had been stored before its own.
Todo ==
    [at |-> "todo", color |-> <<>>, color_index |-> 0,
     late |-> FALSE, turn |-> 0]

\* the pixels of a map_over buffer whose index is stored into one of the
\* bytes of pixel idx: image[j] lies in image[idx * 3 .. idx * 3 + 2]
StoredInto(idx) ==
    { j \in 0..(Len(pixels) - 1) : j # idx /\ j \div 3 = idx }

\* PixelColor reading the map_over pixel without the stride of three
PixelColorPacked(idx) ==
    IF op = "map" THEN image[idx + 1]
    ELSE LET rgb_idx == idx
         IN  <<buffer[rgb_idx + 1], buffer[rgb_idx + 2], buffer[rgb_idx + 3]>>

\* the colour of pixel idx as the loop body reads it: rgb[idx] in map, the
\* three bytes at idx * 3 of the buffer itself in map_over
PixelColor(idx) ==
    IF op = "map" THEN image[idx + 1]
    ELSE LET rgb_idx == idx * 3
         IN  <<buffer[rgb_idx + 1], buffer[rgb_idx + 2], buffer[rgb_idx + 3]>>

\* Squasher::map up to its loop, with an output buffer of one element per
\* pixel: the table is filled for the colours of img
MapStart(img) ==
    \E sorted \in UniqueAndSorted(img) :
        /\ map' = map_selected(difference_fn, palette, map, sorted)
        /\ touched' = { color_index(c) : c \in Distinct(img) }
        /\ buffer' = FreshBuffer(Len(img))
        /\ pixels' = [i \in 1..Len(img) |-> Todo]
        /\ written' = 0
        /\ ret' = 0
        /\ op' = "map"
        /\ image' = img
        /\ panic' = "none"
        /\ UNCHANGED <<max_colours_min1, palette, difference_fn,
                       tolerance_percent>>

\* Squasher::<u8>::map_over up to its loop, on the bytes of img
MapOverStart(img) ==
    \E sorted \in UniqueAndSorted(AsRgb(AsBytes(img))) :
        /\ map' = map_selected(difference_fn, palette, map, sorted)
        /\ touched' = { color_index(c) : c \in Distinct(img) }
        /\ buffer' = AsBytes(img)
        /\ pixels' = [i \in 1..Len(img) |-> Todo]
        /\ written' = 0
        /\ ret' = 0
        /\ op' = "map_over"
        /\ image' = img
        /\ panic' = "none"
        /\ UNCHANGED <<max_colours_min1, palette, difference_fn,
                       tolerance_percent>>

\* the loop body for pixel idx, first half: the colour is read and its index
\* looked up in the table
Load(idx) ==
    /\ op \in {"map", "map_over"}
    /\ idx \in 0..(Len(pixels) - 1)
    /\ pixels[idx + 1].at = "todo"
    /\ pixels' = [pixels EXCEPT ![idx + 1] =
                     [at          |-> "read",
                      color       |-> PixelColor(idx),
                      color_index |-> TableGet(map, color_index(PixelColor(idx))),
                      late        |-> \E j \in StoredInto(idx) :
                                          pixels[j + 1].at = "done",
                      turn        |-> 0]]
    /\ UNCHANGED <<squasher, op, image, buffer, written, touched, panic, ret>>

\* the loop body for pixel idx, second half: the index is stored at idx; the
\* last store ends the loop, and map_over returns image.len() / 3
Store(idx) ==
    /\ op \in {"map", "map_over"}
    /\ idx \in 0..(Len(pixels) - 1)
    /\ pixels[idx + 1].at = "read"
    /\ buffer' = [buffer EXCEPT ![idx + 1] = pixels[idx + 1].color_index]
    /\ pixels' = [pixels EXCEPT ![idx + 1].at = "done",
                                ![idx + 1].turn = written]
    /\ written' = written + 1
    /\ ret' = IF op = "map_over" /\ written + 1 = Len(pixels)
              THEN Len(buffer) \div 3 ELSE 0
    /\ UNCHANGED <<squasher, op, image, touched, panic>>

\* the call returns once its loop has stored every index
LoopReturn ==
    /\ \A i \in DOMAIN pixels : pixels[i].at = "done"
    /\ Return

\* a Squasher built with the rgb metric and tolerance 0: the remap loop reads
\* neither the metric nor the tolerance
InitLoop == Init /\ difference_fn = "rgb" /\ tolerance_percent = 0

\* a call of map or map_over whose loop takes its pixels in any order, the
\* two halves of the loop body of different pixels interleaved
NextLoop ==
    \/ LoopReturn /\ UNCHANGED selection
    \/ /\ op = "idle"
       /\ \E img \in Images(MaxPixels) : MapStart(img)
       /\ UNCHANGED selection
    \/ /\ op = "idle"
       /\ \E img \in Images(MaxPixels) : MapOverStart(img)
       /\ UNCHANGED selection
    \/ /\ \E idx \in 0..(MaxPixels - 1) : Load(idx)
       /\ UNCHANGED selection
    \/ /\ \E idx \in 0..(MaxPixels - 1) : Store(idx)
       /\ UNCHANGED selection

SpecLoop == InitLoop /\ [][NextLoop]_vars

---------------------------------------------------------------------------
(* A Selector run on a fresh Squasher, then the image mapped *)

\* most attempts a HeuristicSorsel is given
MaxAttempts == 3

\* most refinement rounds a Kmeans is given
MaxIter == 1

\* max_colours_min1 values drawn for a selection: 1, 2, 3 and 256 colours
SelMaxColoursMin1s == { 0, 1, 2, 255 }

\* HeuristicSorsel.variance values drawn, in 1/128 percent: 0.25 (the
\* default), 0.015625 and 0.0078125
HeuristicVariances == { 32, 2, 1 }

NoSelector ==
    [kind |-> "none", tolerance |-> 0, variance |-> 0,
     max_attempts |-> 0, max_iter |-> 0, max_colors |-> 0,
     evaluated |-> <<>>]

\* Squasher::from_parts with the image that will be handed to the selector
InitSel ==
    /\ max_colours_min1 \in SelMaxColoursMin1s
    /\ difference_fn \in DiffFns
    /\ tolerance_percent \in Tolerances
    /\ palette = <<>>
    /\ map = ZeroMap
    /\ op = "from_parts"
    /\ image \in Images(MaxSamples)
    /\ buffer = <<>>
    /\ written = 0
    /\ touched = {}
    /\ panic = "none"
    /\ ret = 0
    /\ pixels = <<>>
    /\ selector = NoSelector
    /\ centroids = <<>>
    /\ rounds = 0

\* what a finished selection leaves
Selected(sel, pal) ==
    /\ palette' = pal
    /\ selector' = sel
    /\ op' = "select"
    /\ UNCHANGED <<max_colours_min1, map, difference_fn, tolerance_percent,
                   image, buffer, written, touched, panic, ret, pixels>>

\* Squasher::recolor on the image (the selection of src/lib.rs)
SelectColors ==
    /\ op = "from_parts"
    /\ Recolor(image)
    /\ selector' = BuiltIn
    /\ UNCHANGED <<centroids, rounds>>

\* SortSelect::select with the Squasher's tolerance and metric
SortSelect ==
    /\ op = "from_parts"
    /\ \E sorted \in UniqueAndSorted(image) :
           Selected([NoSelector EXCEPT !.kind = "SortSelect",
                                       !.tolerance = tolerance_percent,
                                       !.max_colors = max_colours_min1 + 1],
                    SortSelect_select(difference_fn, tolerance_percent,
                                      max_colours_min1 + 1, sorted))
    /\ UNCHANGED <<centroids, rounds>>

\* HeuristicSorsel::select, started at the Squasher's tolerance; its metric
\* is difference::rgb, its default
HeuristicSorsel ==
    /\ op = "from_parts"
    /\ difference_fn = "rgb"
    /\ \E v \in HeuristicVariances, a \in 0..MaxAttempts :
           \E colors \in SortedEntriesOf(image) :
               LET sel == [NoSelector EXCEPT !.kind = "HeuristicSorsel",
                                             !.tolerance = tolerance_percent,
                                             !.variance = v,
                                             !.max_attempts = a,
                                             !.max_colors = max_colours_min1 + 1]
                   run == HeuristicSorsel_run(sel, "rgb",
                                              max_colours_min1 + 1, colors)
               IN  Selected([sel EXCEPT !.evaluated = run.evaluated],
                            run.best.palette)
    /\ UNCHANGED <<centroids, rounds>>

\* Kmeans::select, line 29: the seeds
KmeansSeed ==
    /\ op = "from_parts"
    /\ \E m \in 0..MaxIter :
           selector' = [NoSelector EXCEPT !.kind = "Kmeans", !.max_iter = m,
                                          !.max_colors = max_colours_min1 + 1]
    /\ centroids' = get_centroid_seeds_simple(image, max_colours_min1 + 1)
    /\ rounds' = 0
    /\ op' = "get_k_colors"
    /\ UNCHANGED <<squasher, image, buffer, written, touched, panic, ret, pixels>>

\* lines 31-45: one refinement round
KmeansRound ==
    /\ op = "get_k_colors"
    /\ rounds < selector.max_iter
    /\ centroids' \in RoundResults(image, centroids)
    /\ rounds' = rounds + 1
    /\ UNCHANGED <<squasher, call, selector>>

\* lines 46-49: the rounded centroids are the palette
KmeansFinish ==
    /\ op = "get_k_colors"
    /\ ~(rounds < selector.max_iter)
    /\ Selected(selector, RoundCentroids(centroids))
    /\ UNCHANGED <<centroids, rounds>>

\* the image the palette was selected from is mapped: Squasher::map
SelMap ==
    /\ op \in {"select", "recolor"}
    /\ Map(image, Len(image))
    /\ UNCHANGED selection

\* the image the Squasher was built from is mapped without recounting:
\* Squasher::map_no_recolor right after build
SelMapNoRecolor ==
    /\ op = "recolor"
    /\ MapNoRecolor(image, Len(image))
    /\ UNCHANGED selection

NextSel ==
    \/ SelectColors
    \/ SortSelect
    \/ HeuristicSorsel
    \/ KmeansSeed
    \/ KmeansRound
    \/ KmeansFinish
    \/ SelMap
    \/ SelMapNoRecolor

SpecSel == InitSel /\ [][NextSel]_vars

---------------------------------------------------------------------------
(* Selection and mapping under a difference function of the user's own *)

\* Squasher::from_parts with the user's difference function
InitOwn ==
    /\ max_colours_min1 \in SelMaxColoursMin1s
    /\ difference_fn = "lighter"
    /\ tolerance_percent \in Tolerances
    /\ palette = <<>>
    /\ map = ZeroMap
    /\ op = "from_parts"
    /\ image \in Images(MaxSamples)
    /\ buffer = <<>>
    /\ written = 0
    /\ touched = {}
    /\ panic = "none"
    /\ ret = 0
    /\ pixels = <<>>
    /\ selector = NoSelector
    /\ centroids = <<>>
    /\ rounds = 0

NextOwn ==
    \/ SelectColors
    \/ SortSelect
    \/ SelMap

SpecOwn == InitOwn /\ [][NextOwn]_vars

---------------------------------------------------------------------------
(* A Selector asked for a palette of zero colours *)

InitZero ==
    /\ InitSel
    /\ max_colours_min1 = 0

\* SortSelect::select(0, image)
SortSelectZero ==
    /\ op = "from_parts"
    /\ \E sorted \in UniqueAndSorted(image) :
           Selected([NoSelector EXCEPT !.kind = "SortSelect",
                                       !.tolerance = tolerance_percent],
                    SortSelect_select(difference_fn, tolerance_percent, 0,
                                      sorted))
    /\ UNCHANGED <<centroids, rounds>>

\* HeuristicSorsel::select(0, image)
HeuristicSorselZero ==
    /\ op = "from_parts"
    /\ difference_fn = "rgb"
    /\ \E v \in HeuristicVariances, a \in 0..MaxAttempts :
           \E colors \in SortedEntriesOf(image) :
               LET sel == [NoSelector EXCEPT !.kind = "HeuristicSorsel",
                                             !.tolerance = tolerance_percent,
                                             !.variance = v,
                                             !.max_attempts = a]
                   run == HeuristicSorsel_run(sel, "rgb", 0, colors)
               IN  Selected([sel EXCEPT !.evaluated = run.evaluated],
                            run.best.palette)
    /\ UNCHANGED <<centroids, rounds>>

\* Kmeans::select(0, image), line 29: the seeds
KmeansSeedZero ==
    /\ op = "from_parts"
    /\ \E m \in 0..MaxIter :
           selector' = [NoSelector EXCEPT !.kind = "Kmeans", !.max_iter = m]
    /\ centroids' = get_centroid_seeds_simple(image, 0)
    /\ rounds' = 0
    /\ op' = "get_k_colors"
    /\ UNCHANGED <<squasher, image, buffer, written, touched, panic, ret, pixels>>

NextZero ==
    \/ SortSelectZero
    \/ HeuristicSorselZero
    \/ KmeansSeedZero
    \/ KmeansRound
    \/ KmeansFinish

SpecZero == InitZero /\ [][NextZero]_vars

---------------------------------------------------------------------------
(* The shipped metrics applied to pairs of colours *)

\* channel values the sampled colours are made of
DiffChannels == { 0, 10, 200, 255 }

DiffColors == DiffChannels \X DiffChannels \X DiffChannels

\* a metric and the two colours it is about to be called with
InitDiff ==
    /\ difference_fn \in DiffFns
    /\ image \in DiffColors \X DiffColors
    /\ op = "call"
    /\ ret = 0
    /\ pixels = <<>>
    /\ max_colours_min1 = 0
    /\ tolerance_percent = 0
    /\ palette = <<>>
    /\ map = ZeroMap
    /\ buffer = <<>>
    /\ written = 0
    /\ touched = {}
    /\ panic = "none"
    /\ selector = NoSelector
    /\ centroids = <<>>
    /\ rounds = 0

\* (difference_fn)(a, b) returns
Differ ==
    /\ op = "call"
    /\ op' = "difference"
    /\ ret' = Difference(difference_fn, image[1], image[2])
    /\ pixels' = <<>>
    /\ UNCHANGED <<squasher, image, buffer, written, touched, panic,
                   selection>>

NextDiff == Differ

SpecDiff == InitDiff /\ [][NextDiff]_vars

---------------------------------------------------------------------------
(* Properties *)

\* the palette indices whose entry is at minimal difference from colour c
NearestIndices(fn, pal, c) ==
    { i \in 0..(Len(pal) - 1) :
        \A j \in 0..(Len(pal) - 1) :
            Difference(fn, c, pal[i + 1]) <= Difference(fn, c, pal[j + 1]) }

\* the lowest of them
Nearest(fn, pal, c) ==
    CHOOSE i \in NearestIndices(fn, pal, c) :
        \A j \in NearestIndices(fn, pal, c) : i <= j

\* the last call was a mapping call
Mapping == op \in {"map", "map_over", "map_no_recolor"}

\* the last call was a safe-mode mapping call
SafeMapping == op \in {"map", "map_over"}

\* C2: every index a mapping call (map, map_over, map_no_recolor) writes is
\* strictly below the length of the palette current at that call.
C2_IndexBelowPaletteLen ==
    Mapping => \A i \in 1..written : buffer[i] < Len(palette)

\* C3: after a safe-mode map (map or map_over), whatever calls came before,
\* the index written for each pixel is that of a palette entry at minimal
\* difference from the pixel's colour under the configured metric, and the
\* lowest such index when several entries are equally near.
C3_SafeMapNearest ==
    SafeMapping =>
        \A i \in 1..written :
            buffer[i] = Nearest(difference_fn, palette, image[i])

\* C3 witness: a safe map, after earlier calls have filled the table, wrote
\* the index of a pixel that has two equally near palette entries and the
\* index of a pixel whose nearest entry is not entry 0.
C3_Witness ==
    /\ SafeMapping
    /\ written >= 2
    /\ map # [a \in Addrs |-> IF a \in touched THEN map[a] ELSE 0]
    /\ \E i \in 1..written :
           Cardinality(NearestIndices(difference_fn, palette, image[i])) >= 2
    /\ \E i \in 1..written : buffer[i] > 0

\* C9: map and map_no_recolor, called with an output buffer of fewer elements
\* than the image has pixels, fail with "output buffer too small" at the
\* up-front size check: no output element and no table entry is written.
C9_ShortBufferFailsUpFront ==
    (op \in {"map", "map_no_recolor"} /\ Len(buffer) < Len(image)) =>
        /\ panic = "output buffer too small"
        /\ written = 0
        /\ touched = {}

\* C10: map_over on the 3n bytes of an image returns n, leaves in byte i
\* (i < n) the nearest-palette index of the original colour of pixel i, and
\* leaves the bytes from n on as they were.
C10_MapOverInPlace ==
    op = "map_over" =>
        LET n == Len(image)
            original == AsBytes(image)
        IN  /\ ret = n
            /\ Len(buffer) = 3 * n
            /\ \A i \in 1..n :
                   buffer[i] = Nearest(difference_fn, palette, image[i])
            /\ \A j \in (n + 1)..(3 * n) : buffer[j] = original[j]

\* C10 witness: map_over compacted three pixels that do not all get the same
\* index.
C10_Witness ==
    /\ op = "map_over"
    /\ ret = 3
    /\ Len(buffer) = 9
    /\ \E i, j \in 1..3 : buffer[i] # buffer[j]

---------------------------------------------------------------------------
(* Properties of the selectors *)

\* a selector has returned its palette
SelectionDone == selector.kind # "none" /\ op # "get_k_colors"

\* the palette comes from a greedy selection (select_colors or SortSelect)
Greedy == selector.kind \in {"select_colors", "SortSelect"}

\* the palette comes from the adaptive search with at least one attempt
Adaptive == selector.kind = "HeuristicSorsel" /\ selector.max_attempts >= 1

\* the colours of a sequence
Range(seq) == { seq[i] : i \in 1..Len(seq) }

\* p differs from q by more than the tolerance threshold
\* (tolerance_percent / 100) * 765
Far(p, q) ==
    ExceedsTolerance(difference_fn, Difference(difference_fn, p, q),
                     tolerance_percent)

\* colour c1 comes before c2 in descending R, then G, then B
ChannelsDescend(c1, c2) ==
    \/ c1[1] > c2[1]
    \/ c1[1] = c2[1] /\ c1[2] > c2[2]
    \/ c1[1] = c2[1] /\ c1[2] = c2[2] /\ c1[3] > c2[3]

\* s lists the colours of img once each, count descending, ties by
\* descending R, then G, then B
FrequencySorted(s, img) ==
    /\ Range(s) = Distinct(img)
    /\ Len(s) = Cardinality(Distinct(img))
    /\ \A i, j \in 1..Len(s) :
           i < j => \/ Count(img, s[i]) > Count(img, s[j])
                    \/ /\ Count(img, s[i]) = Count(img, s[j])
                       /\ ChannelsDescend(s[i], s[j])

\* the position of colour c in the sequence s of distinct colours
PositionIn(s, c) == CHOOSE i \in 1..Len(s) : s[i] = c

\* C1: for every non-empty pixel buffer and every max_colors >= 1 the palette
\* each selector returns has at least 1 and at most max_colors entries.
C1_PaletteLenWithinBounds ==
    SelectionDone =>
        /\ Len(palette) >= 1
        /\ Len(palette) <= max_colours_min1 + 1

\* the bound of C1 for the selectors other than an adaptive search that is
\* given no attempt at all
C1_ExceptZeroAttempts ==
    (SelectionDone /\ ~(selector.kind = "HeuristicSorsel"
                        /\ selector.max_attempts = 0)) =>
        /\ Len(palette) >= 1
        /\ Len(palette) <= max_colours_min1 + 1

\* C4: greedy selection appends a colour its walk reaches iff the colour
\* differs from every colour already selected by more than the threshold
\* (tolerance_percent / 100) * 765; any two distinct palette entries differ
\* by more than the threshold.
C4_GreedyAcceptance ==
    Greedy =>
        \A sorted \in UniqueAndSorted(image) :
            LET Earlier(i) == { sorted[j] : j \in 1..(i - 1) } \cap Range(palette)
            IN  /\ \A i \in 1..Len(sorted) :
                       Cardinality(Earlier(i)) < max_colours_min1 + 1 =>
                           (sorted[i] \in Range(palette)
                                <=> \A s \in Earlier(i) : Far(s, sorted[i]))
                /\ \A p, q \in 1..Len(palette) :
                       p # q => Far(palette[p], palette[q])

\* C4 witness: a greedy selection with room left in the palette rejected a
\* colour for being too near and accepted two others.
C4_Witness ==
    /\ Greedy
    /\ tolerance_percent > 0
    /\ Len(palette) = 2
    /\ max_colours_min1 + 1 > 2
    /\ Cardinality(Distinct(image)) = 3

\* C5: the greedy palette is a subsequence of the frequency-sorted histogram
\* (count descending, ties by descending R, then G, then B): its first entry
\* is the most frequent colour and its entries keep the histogram's order;
\* pixels (10,10,10) x3, (200,200,200) x1 with max_colors = 2 give the palette
\* [(10,10,10), (200,200,200)] and the indices [0,0,0,1].
C5_FrequencyOrder ==
    Greedy =>
        \A sorted \in UniqueAndSorted(image) :
            /\ FrequencySorted(sorted, image)
            /\ Range(palette) \subseteq Range(sorted)
            /\ palette[1] = sorted[1]
            /\ \A c \in Distinct(image) : Count(image, c) <= Count(image, palette[1])
            /\ \A p, q \in 1..Len(palette) :
                   p < q => PositionIn(sorted, palette[p]) < PositionIn(sorted, palette[q])
            /\ (/\ image = << <<10, 10, 10>>, <<10, 10, 10>>, <<10, 10, 10>>,
                              <<200, 200, 200>> >>
                /\ max_colours_min1 + 1 = 2)
               => /\ palette = << <<10, 10, 10>>, <<200, 200, 200>> >>
                  /\ op = "map" => buffer = <<0, 0, 0, 1>>

\* C5 witness: the scenario image was selected from and mapped.
C5_Witness ==
    /\ Greedy
    /\ op = "map"
    /\ image = << <<10, 10, 10>>, <<10, 10, 10>>, <<10, 10, 10>>, <<200, 200, 200>> >>
    /\ max_colours_min1 + 1 = 2
    /\ buffer = <<0, 0, 0, 1>>

\* C6: for an image with exactly k distinct colours, greedy selection with
\* max_colors = k and tolerance 0 returns the whole frequency-sorted sequence
\* of its colours, and a following safe map gives every pixel the index at
\* which its own colour sits in the palette.
C6_DedupExact ==
    (/\ Greedy
     /\ tolerance_percent = 0
     /\ max_colours_min1 + 1 = Cardinality(Distinct(image)))
    => /\ FrequencySorted(palette, image)
       /\ op = "map" =>
              \A i \in 1..Len(image) :
                  /\ i <= Len(buffer)
                  /\ buffer[i] < Len(palette)
                  /\ palette[buffer[i] + 1] = image[i]

\* C6 witness: an image of three distinct colours, selected from with
\* max_colors = 3 and tolerance 0, was mapped.
C6_Witness ==
    /\ Greedy
    /\ op = "map"
    /\ tolerance_percent = 0
    /\ max_colours_min1 + 1 = 3
    /\ Cardinality(Distinct(image)) = 3
    /\ Len(buffer) = 4

\* the buffer map leaves for the image on a fresh table, with palette pal and
\* the image's colours visited in the order of `sorted`
MappedWith(pal, sorted) ==
    MapLoop(map_selected(difference_fn, pal, ZeroMap, sorted), image,
            FreshBuffer(Len(image)))

\* C7: the histogram sort is a total order, so its result does not depend on
\* the iteration order of the colour -> count map; greedy or adaptive
\* selection followed by map gives the same palette and the same index
\* buffer on every run over the same input and configuration.
C7_Deterministic ==
    /\ \A c1, c2 \in Distinct(image) :
           c1 # c2 =>
               SortGreater(<<c1, Count(image, c1)>>, <<c2, Count(image, c2)>>)
                   # SortGreater(<<c2, Count(image, c2)>>, <<c1, Count(image, c1)>>)
    /\ Cardinality(UniqueAndSorted(image)) = 1
    /\ Cardinality(SortedEntriesOf(image)) = 1
    /\ (selector.kind = "select_colors" /\ op \in {"recolor", "select"}) =>
           \A sorted \in UniqueAndSorted(image) :
               palette = select_colors(difference_fn, tolerance_percent,
                                       max_colours_min1, sorted)
    /\ (selector.kind = "SortSelect" /\ op \in {"recolor", "select"}) =>
           \A sorted \in UniqueAndSorted(image) :
               palette = SortSelect_select(difference_fn, tolerance_percent,
                                           max_colours_min1 + 1, sorted)
    /\ (selector.kind = "HeuristicSorsel" /\ op \in {"recolor", "select"}) =>
           \A colors \in SortedEntriesOf(image) :
               palette = HeuristicSorsel_select(selector, "rgb",
                                                max_colours_min1 + 1, colors)
    /\ (op = "map" /\ selector.kind # "Kmeans") =>
           \A sorted \in UniqueAndSorted(image) :
               buffer = MappedWith(palette, sorted)

\* C7 witness: an image in which two colours occur equally often went through
\* the adaptive search and was mapped.
C7_Witness ==
    /\ selector.kind = "HeuristicSorsel"
    /\ selector.max_attempts >= 2
    /\ op = "map"
    /\ Len(palette) >= 2
    /\ \E c1, c2 \in Distinct(image) :
           c1 # c2 /\ Count(image, c1) = Count(image, c2)

\* C8: for an image whose pixels all have the same colour and max_colors =
\* 256, the palette has exactly one entry and every mapped pixel gets index
\* 0, whichever selector is configured.
C8_SingleColour ==
    (/\ SelectionDone
     /\ Cardinality(Distinct(image)) = 1
     /\ max_colours_min1 + 1 = 256)
    => /\ Len(palette) = 1
       /\ op = "map" => \A i \in 1..Len(buffer) : buffer[i] = 0

---------------------------------------------------------------------------
(* Properties of map_no_recolor and recolor *)

\* C11: a Squasher built from an image and not yet used for a safe map writes,
\* when map_no_recolor maps that same image, the index of the nearest palette
\* entry for every pixel.
C11_NoRecolorSameImage ==
    (op = "map_no_recolor" /\ selector.kind = "select_colors") =>
        \A i \in 1..written :
            buffer[i] = Nearest(difference_fn, palette, image[i])


\* C12: recolor replaces the palette by one selected afresh from the given
\* image under the configuration (max colours, tolerance, metric), whatever
\* the previous palette and the lookup table hold, and leaves every
\* lookup-table entry and the configuration unchanged.
C12_RecolorFrame ==
    [][op' = "recolor" =>
          /\ palette' \in { select_colors(difference_fn, tolerance_percent,
                                          max_colours_min1, sorted) :
                            sorted \in UniqueAndSorted(image') }
          /\ map' = map
          /\ max_colours_min1' = max_colours_min1
          /\ difference_fn' = difference_fn
          /\ tolerance_percent' = tolerance_percent]_vars

\* C12 witness: recolor has selected a palette while the lookup table holds
\* an index of an earlier, longer palette.
C12_Witness ==
    /\ op = "recolor"
    /\ Len(palette) >= 1
    /\ \E a \in Addrs : map[a] >= Len(palette)


\* C13: a lookup-table entry a mapping call emits was computed against the
\* palette current at that read: a populated (non-zero) entry that
\* map_no_recolor copies out is the index of the pixel's nearest entry in the
\* current palette, whatever recolor and mapping calls came before.
C13_NoStaleEntryEmitted ==
    op = "map_no_recolor" =>
        \A i \in 1..written :
            buffer[i] # 0 =>
                buffer[i] = Nearest(difference_fn, palette, image[i])


\* C14: palette selection asked for max_colors = 0 fails with InvalidConfig
\* and returns no palette.
C14_ZeroColoursRejected ==
    (op = "select" /\ selector.max_colors = 0) =>
        /\ panic = "InvalidConfig"
        /\ palette = <<>>

\* what each selector returns when asked for zero colours: SortSelect and
\* HeuristicSorsel the empty palette, Kmeans a palette of one colour
C14_ReturnedForZero ==
    (op = "select" /\ selector.max_colors = 0) =>
        /\ panic = "none"
        /\ Len(palette) = (IF selector.kind = "Kmeans" THEN 1 ELSE 0)


\* C15: mapping a pixel buffer whose byte length is not a multiple of 3 fails
\* with MalformedBuffer and writes nothing; the bytes after the last whole
\* triplet are not silently ignored.
C15_MalformedBufferRejected ==
    (op = "map_over" /\ Len(buffer) % 3 # 0) =>
        /\ panic = "MalformedBuffer"
        /\ written = 0
        /\ touched = {}


---------------------------------------------------------------------------
(* Properties of the metrics *)

\* C16: for rgb and redmean and all colours a, b: difference(a, a) = 0 and
\* difference(a, b) = difference(b, a); rgb lies in [0, 765].  (redmean is
\* modelled by 512 times the radicand of its square root, which is 0, or
\* equal for two pairs, exactly when the root is.)
C16_MetricLaws ==
    op = "difference" =>
        LET a == image[1]
            b == image[2]
        IN  /\ ret = Difference(difference_fn, b, a)
            /\ a = b => ret = 0
            /\ difference_fn = "rgb" => ret >= 0 /\ ret <= 765

\* C16 witness: rgb returned its largest value, 765, or redmean was applied
\* to two colours that differ in every channel.
C16_Witness ==
    /\ op = "difference"
    /\ image[1] # image[2]
    /\ \/ difference_fn = "rgb" /\ ret = 765
       \/ difference_fn = "redmean" /\ image = << <<255, 0, 10>>, <<0, 255, 200>> >>


\* the difference function called as its documentation says: the colour
\* already in the palette first, the colour being checked second
DocumentedDifference(in_palette, checked) ==
    Difference(difference_fn, in_palette, checked)

\* the lowest palette index at least documented difference from colour c
DocumentedNearest(c) ==
    CHOOSE i \in 0..(Len(palette) - 1) :
        /\ \A j \in 0..(Len(palette) - 1) :
               DocumentedDifference(palette[i + 1], c)
                   <= DocumentedDifference(palette[j + 1], c)
        /\ \A j \in 0..(i - 1) :
               DocumentedDifference(palette[j + 1], c)
                   > DocumentedDifference(palette[i + 1], c)

\* C17: every call of the configured difference function passes the colour
\* already in the palette first and the colour being checked second: a
\* colour the greedy walk reaches is accepted iff difference(selected,
\* colour) exceeds the threshold for every selected colour, and the table
\* gives each colour the lowest index of least difference(palette entry,
\* colour).
C17_ArgumentOrder ==
    /\ Greedy =>
           \A sorted \in UniqueAndSorted(image) :
               LET Earlier(i) ==
                       { sorted[j] : j \in 1..(i - 1) } \cap Range(palette)
               IN  \A i \in 1..Len(sorted) :
                       Cardinality(Earlier(i)) < max_colours_min1 + 1 =>
                           (sorted[i] \in Range(palette)
                                <=> \A s \in Earlier(i) :
                                        ExceedsTolerance(difference_fn,
                                            DocumentedDifference(s, sorted[i]),
                                            tolerance_percent))
    /\ op = "map" =>
           \A i \in 1..written : buffer[i] = DocumentedNearest(image[i])


---------------------------------------------------------------------------
(* Properties of the adaptive search *)

\* the adaptive search has returned
Searched == selector.kind = "HeuristicSorsel" /\ op = "select"

\* a step V, in 1/128 percent, is not below 0.01
NotBelowEpsilon(v) == v * 100 >= 128

\* C18: the adaptive search exits as soon as the step V has fallen below 0.01
\* or max_attempts passes have run: no pass evaluates its two selections
\* with a step below 0.01, and at most max_attempts passes are made.  (Stated
\* for a search whose configured step is not itself below 0.01.)
C18_SearchStops ==
    (Searched /\ NotBelowEpsilon(selector.variance)) =>
        /\ Len(selector.evaluated) <= selector.max_attempts
        /\ \A i \in 1..Len(selector.evaluated) :
               NotBelowEpsilon(selector.evaluated[i].variance)

\* the least score the passes before pass i found (f32::MAX before any)
BestBefore(i) ==
    LET scores == { F32_MAX } \cup
                  UNION { { selector.evaluated[j].up.score,
                            selector.evaluated[j].down.score } :
                          j \in 1..(i - 1) }
    IN  CHOOSE x \in scores : \A y \in scores : x <= y

\* pass i found no selection that scores below the best so far
NoneBetter(i) ==
    /\ selector.evaluated[i].up.score >= BestBefore(i)
    /\ selector.evaluated[i].down.score >= BestBefore(i)

\* C18 as amended: the search makes at most max_attempts passes; the first
\* runs with the configured step V, a later one with the step of the pass
\* before it, halved exactly when that pass found nothing better and its V
\* was above 0.01 (so a pass may run with a V below 0.01, but V is not
\* halved again from there); the loop ends before max_attempts passes only
\* after a pass that found nothing better with a V of 0.01 or less.
C18_SearchStopsAmended ==
    Searched =>
        LET passes == selector.evaluated
        IN  /\ Len(passes) <= selector.max_attempts
            /\ Len(passes) >= 1 => passes[1].variance = selector.variance
            /\ \A i \in 2..Len(passes) :
                   passes[i].variance =
                       IF NoneBetter(i - 1)
                          /\ passes[i - 1].variance * 100 > 128
                       THEN passes[i - 1].variance \div 2
                       ELSE passes[i - 1].variance
            /\ Len(passes) < selector.max_attempts =>
                   /\ Len(passes) >= 1
                   /\ NoneBetter(Len(passes))
                   /\ passes[Len(passes)].variance * 100 <= 128

\* C18 witness: a search halved its step from 0.015625 to 0.0078125, below
\* 0.01, and ran its third pass with it.
C18_Witness ==
    /\ Searched
    /\ Len(selector.evaluated) = 3
    /\ selector.evaluated[2].variance = 2
    /\ selector.evaluated[3].variance = 1

\* the least difference of colour c to an entry of pal
LeastDifference(pal, c) ==
    CHOOSE d \in { Difference("rgb", pal[j], c) : j \in 1..Len(pal) } :
        \A j \in 1..Len(pal) : d <= Difference("rgb", pal[j], c)

RECURSIVE SumOver(_, _, _)
\* the sum of count * least difference over the colours of the set cs
SumOver(pal, img, cs) ==
    IF cs = {} THEN 0
    ELSE LET c == CHOOSE x \in cs : TRUE
         IN  Count(img, c) * LeastDifference(pal, c) + SumOver(pal, img, cs \ {c})

\* the score of palette pal for the image: the sum over its unique colours
\* of count * minimum difference to a palette entry
PaletteScore(pal) == SumOver(pal, image, Distinct(image))

\* the selections the search evaluated
EvaluatedRuns ==
    UNION { { selector.evaluated[i].up, selector.evaluated[i].down } :
            i \in 1..Len(selector.evaluated) }

\* C19: the palette the adaptive search returns is the palette of one of the
\* greedy selections it evaluated, and its score (sum over unique colours of
\* count * minimum difference to a palette entry) is at most the score of
\* every selection evaluated during the search.
C19_BestOfEvaluated ==
    Searched =>
        /\ \E run \in EvaluatedRuns : run.palette = palette
        /\ \A run \in EvaluatedRuns :
               /\ run.palette # <<>>
               /\ run.score = PaletteScore(run.palette)
               /\ PaletteScore(palette) <= run.score

\* C19 for a search that is given at least one attempt
C19_WithAttempts ==
    (Searched /\ selector.max_attempts >= 1) =>
        /\ \E run \in EvaluatedRuns : run.palette = palette
        /\ \A run \in EvaluatedRuns :
               /\ run.palette # <<>>
               /\ run.score = PaletteScore(run.palette)
               /\ PaletteScore(palette) <= run.score


---------------------------------------------------------------------------
(* Properties of the k-means seeding *)

\* get_centroid_seeds_simple has just returned its seeds
Seeded == selector.kind = "Kmeans" /\ op = "get_k_colors" /\ rounds = 0

\* the squared distance of sample v to the nearest of the centroids cs
NearestDistance(cs, v) ==
    LET ds == { vector_diff_2_norm(ToRGBF(v), cs[j]) : j \in 1..Len(cs) }
    IN  CHOOSE d \in ds : \A e \in ds : d <= e

\* seed i is a sample as far from its nearest earlier seed as any sample is
FarthestFirst(i) ==
    \E n \in 1..Len(image) :
        /\ centroids[i] = ToRGBF(image[n])
        /\ \A m \in 1..Len(image) :
               NearestDistance(SubSeq(centroids, 1, i - 1), image[m])
                   <= NearestDistance(SubSeq(centroids, 1, i - 1), image[n])

\* C20: k-means seeding returns min(k, number of distinct sample colours)
\* centroids, pairwise distinct: the first is the first sample, each further
\* one a sample whose distance to its nearest already-chosen centroid is
\* maximal.
C20_SeedsDistinct ==
    Seeded =>
        /\ Len(centroids) = Min(selector.max_colors, Cardinality(Distinct(image)))
        /\ \A i, j \in 1..Len(centroids) : i # j => centroids[i] # centroids[j]
        /\ centroids[1] = ToRGBF(image[1])
        /\ \A i \in 2..Len(centroids) : FarthestFirst(i)

\* what the seeding does return: min(k, number of samples) centroids, the
\* first the first sample; with k below the number of samples each further
\* one is a farthest sample, otherwise the seeds are the samples in order
C20_SeedsReturned ==
    Seeded =>
        /\ Len(centroids) = Min(selector.max_colors, Len(image))
        /\ centroids[1] = ToRGBF(image[1])
        /\ IF selector.max_colors < Len(image)
           THEN \A i \in 2..Len(centroids) : FarthestFirst(i)
           ELSE centroids = [i \in 1..Len(image) |-> ToRGBF(image[i])]


---------------------------------------------------------------------------
(* The remap loop in any order *)

\* the loop of a map or map_over call has stored every index
LoopDone ==
    /\ op \in {"map", "map_over"}
    /\ pixels # <<>>
    /\ \A i \in DOMAIN pixels : pixels[i].at = "done"

\* what the loop of the code, pixel 0 first and one pixel after the other,
\* leaves in the buffer
SequentialPass ==
    IF op = "map" THEN MapLoop(map, image, FreshBuffer(Len(image)))
    ELSE MapOverLoop(map, AsBytes(image), 0)

\* every pixel got the table's entry for its own colour, and the buffer is
\* the one the sequential loop leaves
SameAsSequential ==
    /\ buffer = SequentialPass
    /\ \A i \in DOMAIN pixels :
           pixels[i].color_index = TableGet(map, color_index(image[i]))

\* no pixel was read after an index had been stored into one of its bytes
ReadInTime == \A i \in DOMAIN pixels : ~pixels[i].late

\* C21 as stated: whatever the order in which the loop takes the pixels, and
\* however the reads and stores of different pixels interleave, map and
\* map_over leave the output of the sequential pass, each pixel's index
\* depending on that pixel's own colour only.
C21_AnyOrder == LoopDone => SameAsSequential

\* C21: map leaves the output of the sequential pass in whatever order and
\* interleaving its loop takes the pixels; map_over does so in every order
\* and interleaving in which each pixel idx is read before the pixels
\* idx * 3, idx * 3 + 1 and idx * 3 + 2 (other than idx itself) store their
\* index, as the ascending loop of the code does.
C21_AnyOrderAmended ==
    (LoopDone /\ (op = "map" \/ ReadInTime)) => SameAsSequential

\* C21 witness: a map_over loop over three pixels finished with pixel 2
\* stored before pixel 1, every pixel read in time, and the indices stored
\* are not all the same
C21_Witness ==
    /\ LoopDone
    /\ op = "map_over"
    /\ Len(pixels) = 3
    /\ ReadInTime
    /\ pixels[3].turn < pixels[2].turn
    /\ \E i, j \in DOMAIN pixels : pixels[i].color_index # pixels[j].color_index


---------------------------------------------------------------------------
(* What the mapping calls change *)

\* color_index keeps distinct colours in distinct slots, all of them inside
\* the table
SlotsApart ==
    \A c \in DiffColors \cup Colors :
        /\ color_index(c) \in 0..(MAP_LEN - 1)
        /\ \A d \in DiffColors \cup Colors :
               c # d => color_index(c) # color_index(d)

\* the table slots whose entry the step changes
SlotsChanged == { a \in DOMAIN map : map'[a] # map[a] }

\* C22: map and map_over leave the palette as it is and change only table
\* slots at R*65536 + G*256 + B of colours of the mapped image, distinct
\* colours having distinct slots below 16,777,216; map_no_recolor changes
\* neither the palette nor the table; no call changes the table's length.
C22_MapFrame ==
    [][/\ op' \in {"map", "map_over"} =>
              /\ palette' = palette
              /\ \A a \in SlotsChanged :
                     \E i \in DOMAIN image' : a = color_index(image'[i])
       /\ op' = "map_no_recolor" => (palette' = palette /\ map' = map)
       /\ DOMAIN map' = DOMAIN map
       /\ DOMAIN map' \subseteq 0..(MAP_LEN - 1)
       /\ SlotsApart]_vars

\* C22 witness: a map call has written a non-zero index into the slot of a
\* colour of its image, and the slot of a colour not in the image still holds
\* the non-zero index an earlier call left there.
C22_Witness ==
    /\ op = "map"
    /\ panic = "none"
    /\ \E i \in DOMAIN image : map[color_index(image[i])] # 0
    /\ \E c \in Colors \ Distinct(image) : map[color_index(c)] # 0


---------------------------------------------------------------------------
(* No colour twice in a palette *)

\* no two entries of pal hold the same colour
PairwiseDistinct(pal) ==
    \A i, j \in DOMAIN pal : i # j => pal[i] # pal[j]

\* C23: the palette a selector returns never holds the same colour twice:
\* greedy and adaptive palettes are pairwise-distinct colours of the image,
\* and the rounded k-means centroids are pairwise distinct as well.
C23_NoColourTwice ==
    SelectionDone =>
        /\ PairwiseDistinct(palette)
        /\ (Greedy \/ Adaptive) => Range(palette) \subseteq Distinct(image)

\* what holds for the images of the model: the greedy and adaptive palettes
\* are pairwise-distinct colours of the image, and a k-means palette that
\* went through at least one refinement round has no colour twice
C23_ExceptUnrefinedKmeans ==
    (SelectionDone /\ ~(selector.kind = "Kmeans" /\ rounds = 0)) =>
        /\ PairwiseDistinct(palette)
        /\ (Greedy \/ Adaptive) => Range(palette) \subseteq Distinct(image)

=============================================================================
